---- MODULE Spec2Model ----
(***************************************************************************)
(* Model of src/config.ts: class Config, which reads HOME,                 *)
(* DESTROY_DATABASE and COUNT from an environment mapping through the      *)
(* env-var builder (from / get / required / asString / asBool /            *)
(* asIntPositive) and freezes itself at the end of its constructor.        *)
(*                                                                         *)
(* A raw environment value is a string, modelled as a sequence of          *)
(* one-character strings, so that trim, toLowerCase, parseInt and toString *)
(* are computed character by character as the JavaScript functions do.     *)
(* An environment mapping is a function whose DOMAIN is the set of keys    *)
(* that are set: container[varName] is undefined iff varName is not in     *)
(* the DOMAIN.                                                             *)
(***************************************************************************)
EXTENDS Integers, Sequences, FiniteSets, TLC

VARIABLES
    procEnv,      \* process.env
    override,     \* override[o]: the argument the caller passes to new Config(...)
    status,       \* status[o]: "idle", "constructing", "returned" or "threw"
    pc,           \* pc[o]: index in Constructor of the next statement to run
    obj,          \* obj[o]: the fields of the Config instance and its frozen flag
    err,          \* err[o]: the error the constructor threw, if any
    snap,         \* snap[o]: history, the argument and process.env when new Config was called
    writeOutcome, \* writeOutcome[o]: what the last assignment by a caller did
    mutations     \* number of changes callers made to the mappings so far

vars == <<procEnv, override, status, pc, obj, err, snap, writeOutcome, mutations>>

(***************************************************************************)
(* Bounds of the model.                                                    *)
(***************************************************************************)
\* longest raw COUNT string enumerated in SpecCoerce
MaxRawLen == 2
\* number of changes to the environment mappings in one behaviour of Spec
MaxMutations == 2

Objs == {1, 2}
Keys == {"HOME", "DESTROY_DATABASE", "COUNT"}

(***************************************************************************)
(* JavaScript values.                                                      *)
(***************************************************************************)
Undef == [t |-> "undefined"]
Str(s) == [t |-> "string", v |-> s]
Bool(b) == [t |-> "boolean", v |-> b]
Num(n) == [t |-> "number", v |-> n]
Ref(r) == [t |-> "object", v |-> r]

(***************************************************************************)
(* String functions of the JavaScript runtime used by env-var.             *)
(***************************************************************************)
WhiteSpace == {" ", "\t"}
Digits == {"0", "1", "2", "3", "4", "5", "6", "7", "8", "9"}
DigitVal(c) ==
    CASE c = "0" -> 0 [] c = "1" -> 1 [] c = "2" -> 2 [] c = "3" -> 3
      [] c = "4" -> 4 [] c = "5" -> 5 [] c = "6" -> 6 [] c = "7" -> 7
      [] c = "8" -> 8 [] c = "9" -> 9
DigitChar(d) ==
    CASE d = 0 -> "0" [] d = 1 -> "1" [] d = 2 -> "2" [] d = 3 -> "3"
      [] d = 4 -> "4" [] d = 5 -> "5" [] d = 6 -> "6" [] d = 7 -> "7"
      [] d = 8 -> "8" [] d = 9 -> "9"

RECURSIVE trimStart(_)
trimStart(s) ==
    IF s # <<>> /\ Head(s) \in WhiteSpace THEN trimStart(Tail(s)) ELSE s

RECURSIVE trimEnd(_)
trimEnd(s) ==
    IF s # <<>> /\ s[Len(s)] \in WhiteSpace
    THEN trimEnd(SubSeq(s, 1, Len(s) - 1))
    ELSE s

trim(s) == trimEnd(trimStart(s))

LowerChar(c) ==
    CASE c = "T" -> "t" [] c = "R" -> "r" [] c = "U" -> "u" [] c = "E" -> "e"
      [] c = "F" -> "f" [] c = "A" -> "a" [] c = "L" -> "l" [] c = "S" -> "s"
      [] c = "Y" -> "y" [] c = "N" -> "n" [] c = "O" -> "o"
      [] OTHER -> c

toLowerCase(s) == [i \in 1..Len(s) |-> LowerChar(s[i])]

\* the longest prefix of s made of decimal digits
RECURSIVE DigitPrefix(_)
DigitPrefix(s) ==
    IF s # <<>> /\ Head(s) \in Digits
    THEN <<Head(s)>> \o DigitPrefix(Tail(s))
    ELSE <<>>

RECURSIVE DigitsValue(_, _)
DigitsValue(s, acc) ==
    IF s = <<>> THEN acc ELSE DigitsValue(Tail(s), 10 * acc + DigitVal(Head(s)))

NaN == [nan |-> TRUE, n |-> 0]

\* parseInt(value, 10): leading white space, an optional sign, then the
\* longest run of digits; NaN when there is no digit there.
parseInt(s) ==
    LET t == trimStart(s)
        neg == t # <<>> /\ Head(t) = "-"
        u == IF t # <<>> /\ Head(t) \in {"-", "+"} THEN Tail(t) ELSE t
        d == DigitPrefix(u)
    IN  IF d = <<>> THEN NaN
        ELSE [nan |-> FALSE,
              n |-> IF neg THEN 0 - DigitsValue(d, 0) ELSE DigitsValue(d, 0)]

RECURSIVE NatToString(_)
NatToString(n) ==
    IF n < 10 THEN <<DigitChar(n)>>
    ELSE NatToString(n \div 10) \o <<DigitChar(n % 10)>>

\* n.toString(10)
toString(n) == IF n < 0 THEN <<"-">> \o NatToString(0 - n) ELSE NatToString(n)

(***************************************************************************)
(* env-var: from(container).get(varName).required().asXxx().  An accessor  *)
(* returns Ok(value) or Fail(msg); Fail stands for the EnvVarError that    *)
(* env-var throws, whose message names the variable.                       *)
(***************************************************************************)
Ok(v) == [ok |-> TRUE, value |-> v, msg |-> ""]
Fail(m) == [ok |-> FALSE, value |-> Undef, msg |-> m]

\* container[varName]
get(container, varName) ==
    IF varName \in DOMAIN container THEN Str(container[varName]) ELSE Undef

\* (variant) the chain without .required(): nothing is rejected
requiredSkipped(value) == Ok(value)

\* .required(): an unset variable and a blank one are both rejected
required(value) ==
    IF value = Undef
    THEN Fail("is a required variable, but it was not set")
    ELSE IF trim(value.v) = <<>>
         THEN Fail("is a required variable, but its value was empty")
         ELSE Ok(value)

asString(value) == Ok(Str(value))

AllowedValues == {<<"f", "a", "l", "s", "e">>, <<"0">>, <<"t", "r", "u", "e">>, <<"1">>}

\* (variant) the JavaScript truthiness of the raw string
asBoolTruthy(value) == Ok(Bool(value # <<>>))

\* (variant) everything but a truthy literal is false
asBoolLenient(value) ==
    LET val == toLowerCase(value)
    IN  Ok(Bool(val = <<"1">> \/ val = <<"t", "r", "u", "e">>))

asBool(value) ==
    LET val == toLowerCase(value)
    IN  IF val \notin AllowedValues
        THEN Fail("should be either true, false, TRUE, FALSE, 1, or 0")
        ELSE Ok(Bool(~(val = <<"0">> \/ val = <<"f", "a", "l", "s", "e">>)))

asInt(value) ==
    LET p == parseInt(value)
    IN  IF p.nan \/ toString(p.n) # value
        THEN Fail("should be a valid integer")
        ELSE Ok(Num(p.n))

asIntPositive(value) ==
    LET ret == asInt(value)
    IN  IF ~ret.ok THEN ret
        ELSE IF ret.value.v < 0 THEN Fail("should be a positive integer")
        ELSE ret

\* the accessor at the end of a builder chain: it passes on the failure of
\* required(), returns undefined for a variable that is unset and not
\* required, and otherwise converts the raw string
Accessed(r, accessor) ==
    IF ~r.ok THEN r
    ELSE IF r.value = Undef THEN Ok(Undef)
    ELSE CASE accessor = "asString" -> asString(r.value.v)
           [] accessor = "asBool" -> asBool(r.value.v)
           [] accessor = "asIntPositive" -> asIntPositive(r.value.v)

\* the three field initializers of class Config
ReadHOME(container) == Accessed(required(get(container, "HOME")), "asString")
ReadDESTROY_DATABASE(container) ==
    Accessed(required(get(container, "DESTROY_DATABASE")), "asBool")
ReadCOUNT(container) == Accessed(required(get(container, "COUNT")), "asIntPositive")

(***************************************************************************)
(* The mappings and values the model draws from.                           *)
(***************************************************************************)
Slash == <<"/">>
Root == <<"/", "r", "o", "o", "t">>
True == <<"t", "r", "u", "e">>
False == <<"f", "a", "l", "s", "e">>
Yes == <<"y", "e", "s">>

NoArg == [given |-> FALSE, map |-> <<>>]
Arg(m) == [given |-> TRUE, map |-> m]

\* the mapping of the test suite's configFactory, and variations of it
FactoryEnv == [HOME |-> Slash, DESTROY_DATABASE |-> True, COUNT |-> <<"1">>]
OverrideSamples ==
    { FactoryEnv,
      [HOME |-> Slash, DESTROY_DATABASE |-> False, COUNT |-> <<"3">>],
      [HOME |-> Slash, DESTROY_DATABASE |-> Yes, COUNT |-> <<"1">>],
      [HOME |-> Slash, DESTROY_DATABASE |-> True],
      <<>> }
ArgSamples == {NoArg} \cup {Arg(m) : m \in OverrideSamples}

\* process.env of a shell that sets only HOME, and of one that sets all three
ProcEnvSamples ==
    { [HOME |-> Root],
      [HOME |-> Root, DESTROY_DATABASE |-> False, COUNT |-> <<"2">>] }

\* the value a caller may store under a key after the fact
MutationValue(k) ==
    CASE k = "HOME" -> Root
      [] k = "DESTROY_DATABASE" -> False
      [] k = "COUNT" -> <<"2">>

\* what a caller may try to assign to a field of a Config
WriteValues == {Num(2), Bool(FALSE), Str(Root)}
Fields == {"HOME", "DESTROY_DATABASE", "COUNT"}

(***************************************************************************)
(* class Config.                                                           *)
(***************************************************************************)
NoError == [name |-> "none", key |-> "", msg |-> ""]

NewObject ==
    [processEnv |-> Undef, env |-> Undef, HOME |-> Undef,
     DESTROY_DATABASE |-> Undef, COUNT |-> Undef, frozen |-> FALSE]

\* (variant) Object.freeze(this) ahead of the property initializers
ConstructorFreezeFirst ==
    <<"freeze", "processEnv", "env", "HOME", "DESTROY_DATABASE", "COUNT">>

\* the statements of the compiled constructor, in order: the parameter
\* property, the property initializers in textual order, then the body
Constructor ==
    <<"processEnv", "env", "HOME", "DESTROY_DATABASE", "COUNT", "freeze">>

\* (variant) the argument is ignored
ParamRefProcessOnly(o) == "process.env"

\* the constructor's parameter: processEnv = process.env
ParamRef(o) == IF override[o].given THEN "override" ELSE "process.env"

\* (variant) one mapping shared by every instance
ContainerShared(o, ref) ==
    IF ref = "process.env" THEN procEnv ELSE override[1].map

\* the mapping an object reference of object o designates
Container(o, ref) == IF ref = "process.env" THEN procEnv ELSE override[o].map

\* from(container): the env-var instance keeps a reference to the container
from(container) == container

\* object[field] = value in strict mode code: a TypeError on a frozen object
Assign(object, field, value) ==
    IF object.frozen
    THEN [raised |-> TRUE, object |-> object]
    ELSE [raised |-> FALSE, object |-> [object EXCEPT ![field] = value]]

\* (variant) a getter that reads the environment on every access
FieldLive(o, field) ==
    IF obj[o].env = Undef THEN Undef
    ELSE LET container == Container(o, obj[o].env.v)
         IN  CASE field = "HOME" -> ReadHOME(container).value
               [] field = "DESTROY_DATABASE" -> ReadDESTROY_DATABASE(container).value
               [] field = "COUNT" -> ReadCOUNT(container).value

\* reading a field of the instance: a data property holding a value
Field(o, field) == obj[o][field]

At(o, stmt) ==
    /\ status[o] = "constructing"
    /\ pc[o] \in 1..Len(Constructor)
    /\ Constructor[pc[o]] = stmt

Advance(o) ==
    /\ pc' = [pc EXCEPT ![o] = @ + 1]
    /\ status' = [status EXCEPT
                    ![o] = IF pc[o] = Len(Constructor) THEN "returned" ELSE @]
    /\ err' = err

Throw(o, name, key, msg) ==
    /\ status' = [status EXCEPT ![o] = "threw"]
    /\ err' = [err EXCEPT ![o] = [name |-> name, key |-> key, msg |-> msg]]
    /\ pc' = pc

\* this[field] = <r>, where r is what the right-hand side evaluated to
Initialize(o, field, r) ==
    /\ IF ~r.ok
       THEN Throw(o, "EnvVarError", field, r.msg) /\ obj' = obj
       ELSE LET a == Assign(obj[o], field, r.value)
            IN  IF a.raised
                THEN /\ Throw(o, "TypeError", field,
                              "Cannot assign to read only property")
                     /\ obj' = obj
                ELSE obj' = [obj EXCEPT ![o] = a.object] /\ Advance(o)
    /\ UNCHANGED <<snap, writeOutcome, mutations>>

\* new Config(override[o]) is called
New(o) ==
    /\ status[o] = "idle"
    /\ status' = [status EXCEPT ![o] = "constructing"]
    /\ pc' = [pc EXCEPT ![o] = 1]
    /\ obj' = [obj EXCEPT ![o] = NewObject]
    /\ snap' = [snap EXCEPT ![o] = [arg |-> override[o], proc |-> procEnv]]
    /\ UNCHANGED <<procEnv, override, err, writeOutcome, mutations>>

ParamProperty(o) ==
    /\ At(o, "processEnv")
    /\ Initialize(o, "processEnv", Ok(Ref(ParamRef(o))))
    /\ UNCHANGED <<procEnv, override>>

InitEnv(o) ==
    /\ At(o, "env")
    /\ obj[o].processEnv # Undef
    /\ Initialize(o, "env", Ok(Ref(from(obj[o].processEnv.v))))
    /\ UNCHANGED <<procEnv, override>>

\* (variant) the variable is removed from the container once it was read
InitHOMEConsuming(o) ==
    /\ At(o, "HOME")
    /\ obj[o].env # Undef
    /\ Initialize(o, "HOME", ReadHOME(Container(o, obj[o].env.v)))
    /\ IF obj[o].env.v = "process.env"
       THEN /\ procEnv' = [x \in DOMAIN procEnv \ {"HOME"} |-> procEnv[x]]
            /\ override' = override
       ELSE /\ override' = [override EXCEPT
                  ![o].map = [x \in DOMAIN @ \ {"HOME"} |-> @[x]]]
            /\ procEnv' = procEnv

InitHOME(o) ==
    /\ At(o, "HOME")
    /\ obj[o].env # Undef
    /\ Initialize(o, "HOME", ReadHOME(Container(o, obj[o].env.v)))
    /\ UNCHANGED <<procEnv, override>>

InitDESTROY_DATABASE(o) ==
    /\ At(o, "DESTROY_DATABASE")
    /\ obj[o].env # Undef
    /\ Initialize(o, "DESTROY_DATABASE",
                  ReadDESTROY_DATABASE(Container(o, obj[o].env.v)))
    /\ UNCHANGED <<procEnv, override>>

InitCOUNT(o) ==
    /\ At(o, "COUNT")
    /\ obj[o].env # Undef
    /\ Initialize(o, "COUNT", ReadCOUNT(Container(o, obj[o].env.v)))
    /\ UNCHANGED <<procEnv, override>>

\* (variant) the constructor body does not freeze
FreezeSkipped(o) ==
    /\ At(o, "freeze")
    /\ obj' = obj
    /\ Advance(o)
    /\ UNCHANGED <<procEnv, override, snap, writeOutcome, mutations>>

\* Object.freeze(this)
Freeze(o) ==
    /\ At(o, "freeze")
    /\ obj' = [obj EXCEPT ![o].frozen = TRUE]
    /\ Advance(o)
    /\ UNCHANGED <<procEnv, override, snap, writeOutcome, mutations>>

\* config[field] = v in the code that holds the constructed object
Write(o, field, v) ==
    /\ status[o] = "returned"
    /\ LET a == Assign(obj[o], field, v)
       IN  /\ obj' = [obj EXCEPT ![o] = a.object]
           /\ writeOutcome' = [writeOutcome EXCEPT
                 ![o] = IF a.raised THEN "TypeError" ELSE "assigned"]
    /\ UNCHANGED <<procEnv, override, status, pc, err, snap, mutations>>

\* The constructor is synchronous: its caller changes a mapping only while
\* no constructor is running.
Quiet == \A o \in Objs : status[o] # "constructing"

SetKey(m, k, v) == [x \in DOMAIN m \cup {k} |-> IF x = k THEN v ELSE m[x]]
DeleteKey(m, k) == [x \in DOMAIN m \ {k} |-> m[x]]

\* process.env[k] = v, delete process.env[k]
SetProcEnv(k) ==
    /\ Quiet /\ mutations < MaxMutations
    /\ procEnv' = SetKey(procEnv, k, MutationValue(k))
    /\ procEnv' # procEnv
    /\ mutations' = mutations + 1
    /\ UNCHANGED <<override, status, pc, obj, err, snap, writeOutcome>>

DeleteProcEnv(k) ==
    /\ Quiet /\ mutations < MaxMutations
    /\ k \in DOMAIN procEnv
    /\ procEnv' = DeleteKey(procEnv, k)
    /\ mutations' = mutations + 1
    /\ UNCHANGED <<override, status, pc, obj, err, snap, writeOutcome>>

\* the same on the mapping that was passed to new Config
SetOverride(o, k) ==
    /\ Quiet /\ mutations < MaxMutations
    /\ override[o].given
    /\ override' = [override EXCEPT
                      ![o].map = SetKey(@, k, MutationValue(k))]
    /\ override' # override
    /\ mutations' = mutations + 1
    /\ UNCHANGED <<procEnv, status, pc, obj, err, snap, writeOutcome>>

DeleteOverride(o, k) ==
    /\ Quiet /\ mutations < MaxMutations
    /\ override[o].given
    /\ k \in DOMAIN override[o].map
    /\ override' = [override EXCEPT ![o].map = DeleteKey(@, k)]
    /\ mutations' = mutations + 1
    /\ UNCHANGED <<procEnv, status, pc, obj, err, snap, writeOutcome>>

Init ==
    /\ procEnv \in ProcEnvSamples
    /\ override \in [Objs -> ArgSamples]
    /\ status = [o \in Objs |-> "idle"]
    /\ pc = [o \in Objs |-> 0]
    /\ obj = [o \in Objs |-> NewObject]
    /\ err = [o \in Objs |-> NoError]
    /\ snap = [o \in Objs |-> [arg |-> NoArg, proc |-> <<>>]]
    /\ writeOutcome = [o \in Objs |-> "none"]
    /\ mutations = 0

Next ==
    \/ \E o \in Objs : New(o)
    \/ \E o \in Objs : ParamProperty(o)
    \/ \E o \in Objs : InitEnv(o)
    \/ \E o \in Objs : InitHOME(o)
    \/ \E o \in Objs : InitDESTROY_DATABASE(o)
    \/ \E o \in Objs : InitCOUNT(o)
    \/ \E o \in Objs : Freeze(o)
    \/ \E o \in Objs, f \in Fields, v \in WriteValues : Write(o, f, v)
    \/ \E k \in Keys : SetProcEnv(k)
    \/ \E k \in Keys : DeleteProcEnv(k)
    \/ \E o \in Objs, k \in Keys : SetOverride(o, k)
    \/ \E o \in Objs, k \in Keys : DeleteOverride(o, k)

Spec == Init /\ [][Next]_vars

(***************************************************************************)
(* SpecCoerce: one construction, from every mapping over the raw values    *)
(* below, passed as the override or found in process.env.                  *)
(***************************************************************************)
CountAlphabet == {"0", "1", "2", "-", "+", "a", ".", " "}

RECURSIVE StringsUpTo(_, _)
StringsUpTo(alphabet, n) ==
    IF n = 0 THEN {<<>>}
    ELSE LET shorter == StringsUpTo(alphabet, n - 1)
         IN  shorter \cup {<<c>> \o s : c \in alphabet, s \in shorter}

CountRaw == StringsUpTo(CountAlphabet, MaxRawLen)
HomeRaw == {<<>>, <<" ">>, Slash, Root}
BoolRaw ==
    { True, False, <<"T", "R", "U", "E">>, <<"F", "a", "l", "s", "e">>,
      <<"1">>, <<"0">>, Yes, <<"n", "o">>, <<"2">>, <<>>,
      <<" ", "t", "r", "u", "e">> }

\* a key is unset (<<>>) or set to one raw value (<<v>>)
Optional(S) == {<<>>} \cup {<<v>> : v \in S}
MakeEnv(h, b, c) ==
    LET opt == [HOME |-> h, DESTROY_DATABASE |-> b, COUNT |-> c]
    IN  [k \in {x \in Keys : opt[x] # <<>>} |-> opt[k][1]]
AllEnvs ==
    { MakeEnv(h, b, c) :
        h \in Optional(HomeRaw), b \in Optional(BoolRaw), c \in Optional(CountRaw) }

InitCoerce ==
    /\ \E m \in AllEnvs :
         \/ procEnv = m /\ override = [o \in Objs |-> NoArg]
         \/ /\ procEnv = [HOME |-> Root, DESTROY_DATABASE |-> False, COUNT |-> <<"2">>]
            /\ override = [o \in Objs |-> Arg(m)]
    /\ status = [o \in Objs |-> "idle"]
    /\ pc = [o \in Objs |-> 0]
    /\ obj = [o \in Objs |-> NewObject]
    /\ err = [o \in Objs |-> NoError]
    /\ snap = [o \in Objs |-> [arg |-> NoArg, proc |-> <<>>]]
    /\ writeOutcome = [o \in Objs |-> "none"]
    /\ mutations = 0

NextCoerce ==
    \/ New(1)
    \/ ParamProperty(1)
    \/ InitEnv(1)
    \/ InitHOME(1)
    \/ InitDESTROY_DATABASE(1)
    \/ InitCOUNT(1)
    \/ Freeze(1)

SpecCoerce == InitCoerce /\ [][NextCoerce]_vars

(***************************************************************************)
(* Vocabulary of the properties.                                           *)
(***************************************************************************)
Finished(o) == status[o] \in {"returned", "threw"}

\* the mapping in use: the override when one was given, process.env otherwise
InUse(o) == IF snap[o].arg.given THEN snap[o].arg.map ELSE snap[o].proc

TruthyLiterals == {True, <<"T", "R", "U", "E">>, <<"1">>}
FalsyLiterals == {False, <<"F", "a", "l", "s", "e">>, <<"0">>}

\* the number a string of decimal digits denotes
RECURSIVE Denotes(_)
Denotes(s) ==
    IF s = <<>> THEN 0
    ELSE 10 * Denotes(SubSeq(s, 1, Len(s) - 1)) + DigitVal(s[Len(s)])

PositiveDecimal(s) ==
    /\ s # <<>>
    /\ \A i \in 1..Len(s) : s[i] \in Digits
    /\ Denotes(s) > 0

NotBlank(s) == \E i \in 1..Len(s) : s[i] \notin WhiteSpace

ValidEnv(m) ==
    /\ Keys \subseteq DOMAIN m
    /\ m["DESTROY_DATABASE"] \in TruthyLiterals \cup FalsyLiterals
    /\ PositiveDecimal(m["COUNT"])

YieldsItsValues(o) ==
    /\ status[o] = "returned"
    /\ Field(o, "HOME") = Str(InUse(o)["HOME"])
    /\ Field(o, "DESTROY_DATABASE") =
           Bool(InUse(o)["DESTROY_DATABASE"] \in TruthyLiterals)
    /\ Field(o, "COUNT") = Num(Denotes(InUse(o)["COUNT"]))

C2_MissingKeyThrows ==
    \A o \in Objs :
        /\ (Finished(o) /\ ~(Keys \subseteq DOMAIN InUse(o)))
               => status[o] = "threw" /\ err[o].name = "EnvVarError"
        /\ err[o].msg = "is a required variable, but it was not set"
               => err[o].key \in Keys \ DOMAIN InUse(o)
        /\ (Finished(o) /\ InUse(o) = <<>>)
               => err[o].msg = "is a required variable, but it was not set"

C2_Witness ==
    /\ status[1] = "threw"
    /\ ~snap[1].arg.given
    /\ DOMAIN InUse(1) = {"HOME", "DESTROY_DATABASE"}
    /\ err[1].key = "COUNT"
    /\ err[1].msg = "is a required variable, but it was not set"

FieldValues(o) == [f \in Fields |-> Field(o, f)]

\* a step in which a caller assigns to a field: of the steps of Next, only
\* Write leaves the mappings, status and pc as they are
WriteStep == UNCHANGED <<procEnv, override, status, pc>>

\* C3: an assignment to a field of a constructed Config raises a TypeError,
\* never assigns, and leaves every field of every Config as it was.
C3_WritesRaiseAndChangeNothing ==
    [][ WriteStep =>
          \A o \in Objs :
              /\ writeOutcome'[o] # "assigned"
              /\ writeOutcome'[o] # writeOutcome[o] => writeOutcome'[o] = "TypeError"
              /\ FieldValues(o)' = FieldValues(o) ]_vars

C3_Witness ==
    /\ writeOutcome[1] = "TypeError"
    /\ status[1] = "returned"
    /\ FieldValues(1) =
           [HOME |-> Str(Slash), DESTROY_DATABASE |-> Bool(TRUE), COUNT |-> Num(1)]

\* C4: when DESTROY_DATABASE is set to anything but a recognized literal, the
\* construction does not return and the field never holds a boolean.
C4_UnrecognizedBoolFails ==
    \A o \in Objs :
        ( /\ status[o] # "idle"
          /\ "DESTROY_DATABASE" \in DOMAIN InUse(o)
          /\ InUse(o)["DESTROY_DATABASE"] \notin TruthyLiterals \cup FalsyLiterals )
        => /\ status[o] # "returned"
           /\ Field(o, "DESTROY_DATABASE") = Undef

C4_Witness ==
    /\ status[1] = "threw"
    /\ {"HOME", "DESTROY_DATABASE"} \subseteq DOMAIN InUse(1)
    /\ InUse(1)["HOME"] = Slash
    /\ InUse(1)["DESTROY_DATABASE"] = Yes
    /\ err[1].key = "DESTROY_DATABASE"
    /\ err[1].name = "EnvVarError"

\* C5 as stated: a constructed Config has COUNT >= 1 (a COUNT of "0", of
\* "-1" or of "abc" makes the construction fail).
C5_AsStated ==
    \A o \in Objs :
        status[o] = "returned"
            => Field(o, "COUNT").t = "number" /\ Field(o, "COUNT").v >= 1

Outcome(o) == [status |-> status[o], err |-> err[o], values |-> FieldValues(o)]

\* C6: with an override, the outcome is decided by the override alone: a key
\* the override lacks makes the construction throw whatever process.env
\* holds, and two constructions with equal overrides end alike.
C6_OverrideAloneDecides ==
    /\ \A o \in Objs :
           ( /\ Finished(o)
             /\ snap[o].arg.given
             /\ ~(Keys \subseteq DOMAIN snap[o].arg.map) ) => status[o] = "threw"
    /\ \A o1, o2 \in Objs :
           ( /\ Finished(o1) /\ Finished(o2)
             /\ snap[o1].arg.given /\ snap[o2].arg.given
             /\ snap[o1].arg.map = snap[o2].arg.map ) => Outcome(o1) = Outcome(o2)

C6_Witness ==
    /\ status[1] = "threw" /\ status[2] = "threw"
    /\ snap[1].arg = Arg([HOME |-> Slash, DESTROY_DATABASE |-> True])
    /\ snap[2].arg = snap[1].arg
    /\ snap[1].proc # snap[2].proc
    /\ "COUNT" \in DOMAIN snap[1].proc
    /\ err[1].key = "COUNT" /\ err[2].key = "COUNT"

\* a step in which a caller changes a mapping
MappingStep == procEnv' # procEnv \/ override' # override

\* C7: adding, changing or deleting a key of process.env or of an override
\* leaves the fields of every constructed Config as they were.
C7_SnapshotSurvivesMappingChanges ==
    [][ MappingStep =>
          \A o \in Objs :
              status[o] = "returned" => FieldValues(o)' = FieldValues(o) ]_vars

C7_Witness ==
    /\ status[1] = "returned"
    /\ snap[1].arg.given
    /\ mutations > 0
    /\ Field(1, "COUNT") = Num(1)
    /\ "COUNT" \notin DOMAIN override[1].map

\* a step of a constructor, its throwing included
ConstructionStep == status' # status \/ pc' # pc

\* C8: no step of a construction, successful or not, changes process.env or
\* the override.
C8_ConstructionOnlyReads ==
    [][ ConstructionStep => UNCHANGED <<procEnv, override>> ]_vars

C8_Witness ==
    /\ status[1] = "returned"
    /\ status[2] = "threw"
    /\ mutations = 0
    /\ snap[1].arg.given /\ override[1] = snap[1].arg
    /\ ~snap[2].arg.given /\ procEnv = snap[2].proc

\* what the three initializers make of a mapping
Coerced(m) == [HOME |-> ReadHOME(m), DESTROY_DATABASE |-> ReadDESTROY_DATABASE(m),
               COUNT |-> ReadCOUNT(m)]

\* C9: whatever the interleaving, a returned Config holds the values coerced
\* from its own mapping, and a construction throws exactly when its own
\* mapping has a field that cannot be coerced, naming such a field.
C9_ObjectsDoNotInterfere ==
    \A o \in Objs :
        LET c == Coerced(InUse(o))
        IN  /\ status[o] = "returned" =>
                   \A f \in Fields : c[f].ok /\ Field(o, f) = c[f].value
            /\ status[o] = "threw" =>
                   /\ err[o].key \in Fields
                   /\ ~c[err[o].key].ok
                   /\ err[o].msg = c[err[o].key].msg
            /\ Finished(o) => (status[o] = "returned" <=> \A f \in Fields : c[f].ok)

C9_Witness ==
    /\ status[1] = "returned" /\ status[2] = "returned"
    /\ snap[1].arg.given /\ snap[2].arg.given
    /\ Field(1, "DESTROY_DATABASE") = Bool(TRUE)
    /\ Field(2, "DESTROY_DATABASE") = Bool(FALSE)
    /\ Field(1, "COUNT") = Num(1) /\ Field(2, "COUNT") = Num(3)
    /\ writeOutcome[1] = "TypeError" /\ writeOutcome[2] = "TypeError"

\* C10: the object is frozen only once HOME, DESTROY_DATABASE and COUNT are
\* assigned, in that order; no assignment of the constructor is rejected; an
\* assignment is rejected only after the constructor has returned.
C10_FrozenAfterAllFields ==
    \A o \in Objs :
        /\ obj[o].frozen => \A f \in Fields : obj[o][f] # Undef
        /\ obj[o]["COUNT"] # Undef => obj[o]["DESTROY_DATABASE"] # Undef
        /\ obj[o]["DESTROY_DATABASE"] # Undef => obj[o]["HOME"] # Undef
        /\ err[o].name # "TypeError"
        /\ status[o] = "returned" => obj[o].frozen
        /\ writeOutcome[o] = "TypeError" => status[o] = "returned"

C10_Witness ==
    /\ status[1] = "returned"
    /\ obj[1].frozen
    /\ err[1] = NoError
    /\ writeOutcome[1] = "TypeError"
    /\ status[2] = "constructing" /\ ~obj[2].frozen /\ obj[2]["HOME"] # Undef

====
